---- MODULE Spec2Model ----
(***************************************************************************)
(* falcon/_typing.py: the private type aliases and callable protocols of   *)
(* Falcon.  The model has three parts:                                     *)
(*   - loading the module: the top-level statements executed in order,     *)
(*     each binding one name in the module namespace;                      *)
(*   - call sites: a call (positional arguments, keyword arguments) made   *)
(*     to an object typed by one of the callable contracts, accepted or    *)
(*     rejected by the declared signature, and the value it returns;       *)
(*   - values annotated with one of the data aliases (UnsetOr, MethodDict, *)
(*     ResponseCallbacks), accepted or rejected by the declared type.      *)
(***************************************************************************)
EXTENDS Naturals, Sequences, FiniteSets, TLC

VARIABLES
    py311,      \* sys.version_info >= (3, 11)
    pc,         \* index of the next top-level statement to execute
    ns,         \* module namespace: name -> value ("<unbound>" when not bound)
    nbind,      \* name -> how many times a statement has bound it
    mode,       \* "idle" | "building" | "called" | "table" | "checked"
    callee,     \* the contract of the object being called
    args,       \* positional arguments of the call
    kw,         \* keyword arguments of the call: a set of <<name, value>>
    outcome,    \* "none" | "accepted" | "rejected"
    result,     \* what the call returned
    alias,      \* the data alias a value is checked against
    table,      \* a candidate method table: a set of <<method, responder>>
    pair,       \* a candidate ResponseCallbacks pair
    uval,       \* a candidate UnsetOr value, with the T it is checked for
    verdict     \* whether the candidate value is of the alias

vars == <<py311, pc, ns, nbind, mode, callee, args, kw, outcome, result,
          alias, table, pair, uval, verdict>>

loadVars == <<py311, pc, ns, nbind>>
callVars == <<callee, args, kw, outcome, result>>
valueVars == <<alias, table, pair, uval, verdict>>

\* Surplus positional arguments tried beyond a contract's last parameter.
MaxExtra == 1
\* Entries of a candidate method table.
MaxEntries == 2

(***************************************************************************)
(* Runtime values, by kind.                                                *)
(***************************************************************************)
UNSET == "_Unset.UNSET"

\* class _Unset(Enum): its members.
Unset == {UNSET}

Universe ==
    {"None", "Req", "Resp", "Err", "Dict", "Table", "Obj", "WS", "Str",
     "Bytes", "Int", UNSET}

\* typing.TYPE_CHECKING is False when the module is executed.
TYPE_CHECKING == FALSE

\* Whether value v is of type t, for the types the signatures use.
InType(v, t) ==
    CASE t = "Req" -> v = "Req"                    \* _REQ, _A_REQ
      [] t = "Resp" -> v = "Resp"                  \* _RESP, _A_RESP
      [] t = "OptResp" -> v \in {"Resp", "None"}   \* Optional[_A_RESP]
      [] t = "OptReq" -> v \in {"Req", "None"}     \* Optional[_REQ]
      [] t = "Err" -> v = "Err"                    \* _BE
      [] t = "Dict" -> v = "Dict"                  \* Dict[str, Any]
      [] t = "MethodDict" -> v = "Table"
      [] t = "WS" -> v = "WS"                      \* WebSocket
      [] t = "OptWS" -> v \in {"WS", "None"}       \* Optional[WebSocket]
      [] t = "str" -> v = "Str"
      [] t = "OptStr" -> v \in {"Str", "None"}     \* Optional[str]
      [] t = "bytes" -> v = "Bytes"
      [] t = "None" -> v = "None"
      [] t = "object" -> TRUE                      \* Resource = object
      [] t = "Any" -> TRUE
      [] OTHER -> FALSE

TypeVals(t) == {v \in Universe : InType(v, t)}

NoParams == <<>>
NoKwOnly == {}
Param(n, t, d) == [name |-> n, type |-> t, hasDefault |-> d]

(***************************************************************************)
(* The callable contracts.  A signature is                                 *)
(*   async  : declared with async def (the call returns an awaitable);     *)
(*   pos    : the types of the positional-only parameters, in order;       *)
(*   named  : the positional-or-keyword parameters, in order;              *)
(*   kwonly : the keyword-only parameters;                                 *)
(*   varkw  : the value type of **kwargs, "none" when there is none;       *)
(*   ret    : the declared return type.                                    *)
(* Callable[[A, B], R] declares positional parameters only.                *)
(***************************************************************************)
ErrorHandlerOptRespMut ==
    [async |-> FALSE, pos |-> <<"Req", "OptResp", "Err", "Dict">>,
     named |-> NoParams, kwonly |-> NoKwOnly, varkw |-> "none", ret |-> "None"]

ErrorHandlerWsMut ==
    [async |-> FALSE, pos |-> <<"Req", "Resp", "Err", "Dict">>,
     named |-> NoParams, kwonly |-> {Param("ws", "OptWS", TRUE)},
     varkw |-> "none", ret |-> "None"]

ErrorHandler ==
    [async |-> FALSE, pos |-> <<"Req", "Resp", "Err", "Dict">>,
     named |-> NoParams, kwonly |-> NoKwOnly, varkw |-> "none", ret |-> "None"]

AsgiErrorHandler ==
    [async |-> TRUE, pos |-> <<"Req", "OptResp", "Err", "Dict">>,
     named |-> NoParams, kwonly |-> {Param("ws", "OptWS", TRUE)},
     varkw |-> "none", ret |-> "None"]

SinkCallableAnyMut ==
    [async |-> FALSE, pos |-> <<"Req", "Resp">>, named |-> NoParams,
     kwonly |-> NoKwOnly, varkw |-> "Any", ret |-> "None"]

SinkCallable ==
    [async |-> FALSE, pos |-> <<"Req", "Resp">>, named |-> NoParams,
     kwonly |-> NoKwOnly, varkw |-> "str", ret |-> "None"]

AsgiSinkCallable ==
    [async |-> TRUE, pos |-> <<"Req", "Resp">>, named |-> NoParams,
     kwonly |-> NoKwOnly, varkw |-> "str", ret |-> "None"]

ResponderMethodNoResourceMut ==
    [async |-> FALSE, pos |-> <<"Req", "Resp">>, named |-> NoParams,
     kwonly |-> NoKwOnly, varkw |-> "Any", ret |-> "None"]

ResponderMethod ==
    [async |-> FALSE, pos |-> <<"object", "Req", "Resp">>, named |-> NoParams,
     kwonly |-> NoKwOnly, varkw |-> "Any", ret |-> "None"]

ResponderCallable ==
    [async |-> FALSE, pos |-> <<"Req", "Resp">>, named |-> NoParams,
     kwonly |-> NoKwOnly, varkw |-> "Any", ret |-> "None"]

AsgiResponderMethod ==
    [async |-> TRUE, pos |-> <<"object", "Req", "Resp">>, named |-> NoParams,
     kwonly |-> NoKwOnly, varkw |-> "Any", ret |-> "None"]

AsgiResponderCallable ==
    [async |-> TRUE, pos |-> <<"Req", "Resp">>, named |-> NoParams,
     kwonly |-> NoKwOnly, varkw |-> "Any", ret |-> "None"]

AsgiResponderWsCallable ==
    [async |-> TRUE, pos |-> <<"Req", "WS">>, named |-> NoParams,
     kwonly |-> NoKwOnly, varkw |-> "Any", ret |-> "None"]

FindMethod ==
    [async |-> FALSE, pos |-> <<>>,
     named |-> <<Param("uri", "str", FALSE), Param("req", "OptReq", FALSE)>>,
     kwonly |-> NoKwOnly, varkw |-> "none", ret |-> "OptRoute"]

SerializeSync ==
    [async |-> FALSE, pos |-> <<>>,
     named |-> <<Param("media", "Any", FALSE),
                 Param("content_type", "OptStr", TRUE)>>,
     kwonly |-> NoKwOnly, varkw |-> "none", ret |-> "bytes"]

DeserializeSyncContentTypeMut ==
    [async |-> FALSE, pos |-> <<"bytes">>,
     named |-> <<Param("content_type", "OptStr", TRUE)>>,
     kwonly |-> NoKwOnly, varkw |-> "none", ret |-> "Any"]

DeserializeSync ==
    [async |-> FALSE, pos |-> <<"bytes">>, named |-> NoParams,
     kwonly |-> NoKwOnly, varkw |-> "none", ret |-> "Any"]

\* Responder = Union[ResponderMethod, AsgiResponderMethod]
Responder == {"ResponderMethod", "AsgiResponderMethod"}

ContractNames ==
    {"ErrorHandler", "AsgiErrorHandler", "SinkCallable", "AsgiSinkCallable",
     "ResponderMethod", "ResponderCallable", "AsgiResponderMethod",
     "AsgiResponderCallable", "AsgiResponderWsCallable", "FindMethod",
     "SerializeSync", "DeserializeSync"}

Contract(p) ==
    CASE p = "ErrorHandler" -> ErrorHandler
      [] p = "AsgiErrorHandler" -> AsgiErrorHandler
      [] p = "SinkCallable" -> SinkCallable
      [] p = "AsgiSinkCallable" -> AsgiSinkCallable
      [] p = "ResponderMethod" -> ResponderMethod
      [] p = "ResponderCallable" -> ResponderCallable
      [] p = "AsgiResponderMethod" -> AsgiResponderMethod
      [] p = "AsgiResponderCallable" -> AsgiResponderCallable
      [] p = "AsgiResponderWsCallable" -> AsgiResponderWsCallable
      [] p = "FindMethod" -> FindMethod
      [] p = "SerializeSync" -> SerializeSync
      [] p = "DeserializeSync" -> DeserializeSync

Arity(p) == Len(Contract(p).pos) + Len(Contract(p).named)

KwNamesOf(k) == {e[1] : e \in k}
KwValue(k, n) == (CHOOSE e \in k : e[1] = n)[2]

\* Python's binding of a call's arguments to a signature's parameters.
Accepts(p, a, k) ==
    LET P == Contract(p)
        np == Len(P.pos)
        nn == Len(P.named)
        namedNames == {P.named[j].name : j \in 1..nn}
    IN  /\ Len(a) >= np
        /\ Len(a) <= np + nn
        /\ \A i \in 1..np : InType(a[i], P.pos[i])
        /\ \A j \in 1..nn :
             LET q == P.named[j] IN
             IF np + j <= Len(a)
             THEN InType(a[np + j], q.type) /\ q.name \notin KwNamesOf(k)
             ELSE IF q.name \in KwNamesOf(k)
                  THEN InType(KwValue(k, q.name), q.type)
                  ELSE q.hasDefault
        /\ \A e \in k :
             \/ e[1] \in namedNames
             \/ \E q \in P.kwonly : q.name = e[1] /\ InType(e[2], q.type)
             \/ /\ \A q \in P.kwonly : q.name # e[1]
                /\ P.varkw # "none"
                /\ InType(e[2], P.varkw)
        /\ \A q \in P.kwonly : q.hasDefault \/ q.name \in KwNamesOf(k)

(***************************************************************************)
(* What a call returns.                                                    *)
(***************************************************************************)
NoResult == [kind |-> "nothing", awaited |-> FALSE, items |-> <<>>]
Value(v, aw) == [kind |-> "value", awaited |-> aw, items |-> <<v>>]
Tuple(s, aw) == [kind |-> "tuple", awaited |-> aw, items |-> s]

RouteTupleNoResourceMut == <<"MethodDict", "Dict", "OptStr">>

\* Tuple[object, MethodDict, Dict[str, Any], Optional[str]]
RouteTuple == <<"object", "MethodDict", "Dict", "OptStr">>

TupleVals(types) ==
    {s \in [1..Len(types) -> Universe] :
        \A i \in 1..Len(types) : InType(s[i], types[i])}

\* The values of a declared return type; an async def returns an awaitable
\* whose completion produces the value.
Returns(p) ==
    LET P == Contract(p) IN
    IF P.ret = "OptRoute"
    THEN {Value("None", P.async)}
            \cup {Tuple(s, P.async) : s \in TupleVals(RouteTuple)}
    ELSE {Value(v, P.async) : v \in TypeVals(P.ret)}

BodyRebindMut(p, n) == [n EXCEPT !["Resource"] = p]

\* The body of every contract's __call__ is "...": executing it leaves the
\* module namespace n as it is.
Body(p, n) == n

(***************************************************************************)
(* The data aliases.                                                       *)
(***************************************************************************)
UnsetOrOptionalMut(T) == {"None"} \cup T

\* UnsetOr = Union[Literal[_Unset.UNSET], _T]
UnsetOr(T) == {UNSET} \cup T

\* A callable value, by its own signature.
ConformsTo(f, p) ==
    LET P == Contract(p) IN
    /\ f.async = P.async
    /\ f.pos = P.pos
    /\ f.varkw = P.varkw

ResponseCallbacksAnyFlagMut(c) ==
    \/ ~c[1].async /\ c[1].pos = <<>> /\ c[2] = FALSE
    \/ c[1].async /\ c[1].pos = <<>> /\ c[2] \in BOOLEAN

\* ResponseCallbacks = Union[Tuple[Callable[[], None], Literal[False]],
\*                           Tuple[Callable[[], Awaitable[None]], Literal[True]]]
ResponseCallbacks(c) ==
    \/ ~c[1].async /\ c[1].pos = <<>> /\ c[2] = FALSE
    \/ c[1].async /\ c[1].pos = <<>> /\ c[2] = TRUE

MethodDictMixedMut(t) ==
    \A e \in t :
        \/ ConformsTo(e[2], "ResponderCallable")
        \/ ConformsTo(e[2], "AsgiResponderCallable")
        \/ ConformsTo(e[2], "AsgiResponderWsCallable")

\* MethodDict = Union[Dict[str, ResponderCallable],
\*     Dict[str, Union[AsgiResponderCallable, AsgiResponderWsCallable]]]
MethodDict(t) ==
    \/ \A e \in t : ConformsTo(e[2], "ResponderCallable")
    \/ \A e \in t :
          \/ ConformsTo(e[2], "AsgiResponderCallable")
          \/ ConformsTo(e[2], "AsgiResponderWsCallable")

(***************************************************************************)
(* The module's top-level statements, in source order.  Each binds one     *)
(* name; cond says under which branch the statement is executed.           *)
(***************************************************************************)
Stmt(n, v, c) == [name |-> n, value |-> v, cond |-> c]

Imports ==
    << Stmt("annotations", "__future__.annotations", "always"),
       Stmt("auto", "enum.auto", "always"),
       Stmt("Enum", "enum.Enum", "always"),
       Stmt("http", "module http", "always"),
       Stmt("Cookie", "http.cookiejar.Cookie", "always"),
       Stmt("sys", "module sys", "always"),
       Stmt("Any", "typing.Any", "always"),
       Stmt("Awaitable", "typing.Awaitable", "always"),
       Stmt("Callable", "typing.Callable", "always"),
       Stmt("Dict", "typing.Dict", "always"),
       Stmt("Iterable", "typing.Iterable", "always"),
       Stmt("List", "typing.List", "always"),
       Stmt("Literal", "typing.Literal", "always"),
       Stmt("Mapping", "typing.Mapping", "always"),
       Stmt("Optional", "typing.Optional", "always"),
       Stmt("Pattern", "typing.Pattern", "always"),
       Stmt("Protocol", "typing.Protocol", "always"),
       Stmt("Tuple", "typing.Tuple", "always"),
       Stmt("TYPE_CHECKING", "typing.TYPE_CHECKING", "always"),
       Stmt("TypeVar", "typing.TypeVar", "always"),
       Stmt("Union", "typing.Union", "always") >>

VersionBranch ==
    << Stmt("StartResponse", "wsgiref.types.StartResponse", "py311"),
       Stmt("WSGIEnvironment", "wsgiref.types.WSGIEnvironment", "py311"),
       Stmt("WSGIEnvironment", "Dict[str, Any]", "pre311"),
       Stmt("StartResponse",
            "Callable[[str, List[Tuple[str, str]]], Callable[[bytes], None]]",
            "pre311") >>

TypingBranch ==
    << Stmt("AsgiRequest", "falcon.asgi.Request", "typing"),
       Stmt("AsgiResponse", "falcon.asgi.Response", "typing"),
       Stmt("WebSocket", "falcon.asgi.WebSocket", "typing"),
       Stmt("AsgiEvent", "falcon.asgi_spec.AsgiEvent", "typing"),
       Stmt("AsgiSendMsg", "falcon.asgi_spec.AsgiSendMsg", "typing"),
       Stmt("HTTPError", "falcon.http_error.HTTPError", "typing"),
       Stmt("Request", "falcon.request.Request", "typing"),
       Stmt("Response", "falcon.response.Response", "typing") >>

Declarations ==
    << Stmt("_Unset", "class _Unset", "always"),
       Stmt("_T", "TypeVar", "always"),
       Stmt("_BE", "TypeVar", "always"),
       Stmt("_REQ", "TypeVar", "always"),
       Stmt("_A_REQ", "TypeVar", "always"),
       Stmt("_RESP", "TypeVar", "always"),
       Stmt("_A_RESP", "TypeVar", "always"),
       Stmt("_UNSET", "getattr _Unset UNSET", "always"),
       Stmt("UnsetOr", "alias", "always"),
       Stmt("Link", "alias", "always"),
       Stmt("CookieArg", "alias", "always"),
       Stmt("ErrorHandler", "alias", "always"),
       Stmt("AsgiErrorHandler", "class", "always"),
       Stmt("ErrorSerializer", "alias", "always"),
       Stmt("SinkPrefix", "alias", "always"),
       Stmt("SinkCallable", "class", "always"),
       Stmt("AsgiSinkCallable", "class", "always"),
       Stmt("HeaderMapping", "alias", "always"),
       Stmt("HeaderIter", "alias", "always"),
       Stmt("HeaderArg", "alias", "always"),
       Stmt("ResponseStatus", "alias", "always"),
       Stmt("StoreArg", "alias", "always"),
       Stmt("Resource", "object", "always"),
       Stmt("RangeSetHeader", "alias", "always"),
       Stmt("ResponderMethod", "class", "always"),
       Stmt("ResponderCallable", "class", "always"),
       Stmt("ProcessRequestMethod", "alias", "always"),
       Stmt("ProcessResourceMethod", "alias", "always"),
       Stmt("ProcessResponseMethod", "alias", "always"),
       Stmt("AsgiResponderMethod", "class", "always"),
       Stmt("AsgiResponderCallable", "class", "always"),
       Stmt("AsgiResponderWsCallable", "class", "always"),
       Stmt("AsgiReceive", "alias", "always"),
       Stmt("AsgiSend", "alias", "always"),
       Stmt("AsgiProcessRequestMethod", "alias", "always"),
       Stmt("AsgiProcessResourceMethod", "alias", "always"),
       Stmt("AsgiProcessResponseMethod", "alias", "always"),
       Stmt("AsgiProcessRequestWsMethod", "alias", "always"),
       Stmt("AsgiProcessResourceWsMethod", "alias", "always"),
       Stmt("ResponseCallbacks", "alias", "always"),
       Stmt("MethodDict", "alias", "always"),
       Stmt("FindMethod", "class", "always"),
       Stmt("SerializeSync", "class", "always"),
       Stmt("DeserializeSync", "alias", "always"),
       Stmt("Responder", "alias", "always") >>

Program == Imports \o VersionBranch \o TypingBranch \o Declarations

Names == {Program[i].name : i \in 1..Len(Program)}

Done == Len(Program) + 1

\* Whether a statement under branch c is executed.
Applies(c, v311) ==
    CASE c = "always" -> TRUE
      [] c = "py311" -> v311
      [] c = "pre311" -> ~v311
      [] c = "typing" -> TYPE_CHECKING

\* The value of a statement's right-hand side in namespace n.
Eval(n, v) ==
    IF v = "getattr _Unset UNSET"
    THEN IF n["_Unset"] = "class _Unset" /\ UNSET \in Unset
         THEN UNSET
         ELSE "<AttributeError>"
    ELSE v

(***************************************************************************)
(* The inputs tried: arguments, keyword arguments, candidate values.       *)
(***************************************************************************)
ErrorHandlers == {"ErrorHandler", "AsgiErrorHandler"}
Sinks == {"SinkCallable", "AsgiSinkCallable"}
Responders ==
    {"ResponderMethod", "ResponderCallable", "AsgiResponderMethod",
     "AsgiResponderCallable", "AsgiResponderWsCallable"}

ArgPool(p) ==
    CASE p \in ErrorHandlers -> {"None", "Req", "Resp", "Err", "Dict"}
      [] p \in Sinks -> {"None", "Req", "Resp", "Obj"}
      [] p \in Responder -> {"None", "Obj", "Req", "Resp"}
      [] p = "AsgiResponderWsCallable" -> {"Req", "Resp", "WS"}
      [] p \in Responders \ Responder -> {"None", "Req", "Resp"}
      [] p = "FindMethod" -> {"None", "Str", "Req"}
      [] OTHER -> {"None", "Str", "Bytes", "Obj"}

KwPool(p) ==
    CASE p \in ErrorHandlers ->
            {{}, {<<"ws", "None">>}, {<<"ws", "WS">>}, {<<"ws", "Str">>}}
      [] p \in Sinks \cup Responders ->
            {{}, {<<"id", "Str">>}, {<<"id", "Int">>}, {<<"resp", "Resp">>},
             {<<"id", "Str">>, <<"name", "Str">>}}
      [] p = "FindMethod" -> {{}, {<<"req", "Req">>}, {<<"req", "None">>}}
      [] OTHER ->
            {{}, {<<"content_type", "None">>}, {<<"content_type", "Str">>},
             {<<"content_type", "Bytes">>}}

Methods == {"GET", "POST", "WEBSOCKET"}

\* Responder values: def or async def, (req, resp, /, **kwargs) or
\* (req, ws, /, **kwargs).
ResponderValues ==
    [async : BOOLEAN, pos : {<<"Req", "Resp">>, <<"Req", "WS">>},
     varkw : {"Any"}]

\* Callback values: def or async def, of no argument or of one.
CallbackValues == [async : BOOLEAN, pos : {<<>>, <<"Resp">>}, varkw : {"none"}]

UnsetOrArgs == {"str", "OptStr", "Dict", "bytes"}

NoPair == <<[async |-> FALSE, pos |-> <<>>, varkw |-> "none"], FALSE>>
NoUval == <<"None", "None">>

(***************************************************************************)
(* Actions.                                                                *)
(***************************************************************************)
Init ==
    /\ py311 \in BOOLEAN
    /\ pc = 1
    /\ ns = [n \in Names |-> "<unbound>"]
    /\ nbind = [n \in Names |-> 0]
    /\ mode = "idle"
    /\ callee = "none"
    /\ args = <<>>
    /\ kw = {}
    /\ outcome = "none"
    /\ result = NoResult
    /\ alias = "none"
    /\ table = {}
    /\ pair = NoPair
    /\ uval = NoUval
    /\ verdict = FALSE

\* Execute the next top-level statement of the module.
Exec ==
    /\ pc < Done
    /\ LET s == Program[pc] IN
       IF Applies(s.cond, py311)
       THEN /\ ns' = [ns EXCEPT ![s.name] = Eval(ns, s.value)]
            /\ nbind' = [nbind EXCEPT ![s.name] = @ + 1]
       ELSE UNCHANGED <<ns, nbind>>
    /\ pc' = pc + 1
    /\ UNCHANGED <<py311, mode>>
    /\ UNCHANGED callVars
    /\ UNCHANGED valueVars

\* A call site on an object typed by contract p.
BeginCall(p) ==
    /\ pc = Done
    /\ mode = "idle"
    /\ mode' = "building"
    /\ callee' = p
    /\ UNCHANGED <<args, kw, outcome, result>>
    /\ UNCHANGED loadVars
    /\ UNCHANGED valueVars

PushArg(v) ==
    /\ mode = "building"
    /\ Len(args) < Arity(callee) + MaxExtra
    /\ v \in ArgPool(callee)
    /\ args' = Append(args, v)
    /\ UNCHANGED <<mode, callee, kw, outcome, result>>
    /\ UNCHANGED loadVars
    /\ UNCHANGED valueVars

\* The call is made with keyword arguments k: the signature accepts it or
\* not; an accepted call runs the body and returns a value of the declared
\* return type.
Invoke(k) ==
    /\ mode = "building"
    /\ k \in KwPool(callee)
    /\ kw' = k
    /\ mode' = "called"
    /\ IF Accepts(callee, args, k)
       THEN /\ outcome' = "accepted"
            /\ result' \in Returns(callee)
            /\ ns' = Body(callee, ns)
       ELSE /\ outcome' = "rejected"
            /\ result' = NoResult
            /\ ns' = ns
    /\ UNCHANGED <<py311, pc, nbind, callee, args>>
    /\ UNCHANGED valueVars

BeginTable ==
    /\ pc = Done
    /\ mode = "idle"
    /\ mode' = "table"
    /\ UNCHANGED loadVars
    /\ UNCHANGED callVars
    /\ UNCHANGED valueVars

TableAdd(m, f) ==
    /\ mode = "table"
    /\ Cardinality(table) < MaxEntries
    /\ \A e \in table : e[1] # m
    /\ table' = table \cup {<<m, f>>}
    /\ UNCHANGED <<mode, alias, pair, uval, verdict>>
    /\ UNCHANGED loadVars
    /\ UNCHANGED callVars

CheckTable ==
    /\ mode = "table"
    /\ mode' = "checked"
    /\ alias' = "MethodDict"
    /\ verdict' = MethodDict(table)
    /\ UNCHANGED <<table, pair, uval>>
    /\ UNCHANGED loadVars
    /\ UNCHANGED callVars

CheckPair(cb, flag) ==
    /\ pc = Done
    /\ mode = "idle"
    /\ mode' = "checked"
    /\ alias' = "ResponseCallbacks"
    /\ pair' = <<cb, flag>>
    /\ verdict' = ResponseCallbacks(<<cb, flag>>)
    /\ UNCHANGED <<table, uval>>
    /\ UNCHANGED loadVars
    /\ UNCHANGED callVars

CheckUnsetOr(T, v) ==
    /\ pc = Done
    /\ mode = "idle"
    /\ mode' = "checked"
    /\ alias' = "UnsetOr"
    /\ uval' = <<T, v>>
    /\ verdict' = (v \in UnsetOr(TypeVals(T)))
    /\ UNCHANGED <<table, pair>>
    /\ UNCHANGED loadVars
    /\ UNCHANGED callVars

Reset ==
    /\ mode \in {"called", "checked"}
    /\ mode' = "idle"
    /\ callee' = "none"
    /\ args' = <<>>
    /\ kw' = {}
    /\ outcome' = "none"
    /\ result' = NoResult
    /\ alias' = "none"
    /\ table' = {}
    /\ pair' = NoPair
    /\ uval' = NoUval
    /\ verdict' = FALSE
    /\ UNCHANGED loadVars

Next ==
    \/ Exec
    \/ \E p \in ContractNames : BeginCall(p)
    \/ \E v \in ArgPool(callee) : PushArg(v)
    \/ \E k \in KwPool(callee) : Invoke(k)
    \/ BeginTable
    \/ \E m \in Methods : \E f \in ResponderValues : TableAdd(m, f)
    \/ CheckTable
    \/ \E cb \in CallbackValues : \E flag \in BOOLEAN : CheckPair(cb, flag)
    \/ \E T \in UnsetOrArgs : \E v \in Universe : CheckUnsetOr(T, v)
    \/ Reset

Spec == Init /\ [][Next]_vars

(***************************************************************************)
(* Properties.                                                             *)
(***************************************************************************)
Called(p) == mode = "called" /\ callee = p
Accepted == outcome = "accepted"
ReturnsNone(p) == result = Value("None", Contract(p).async)

\* C1 as stated: an error handler of either form is called with exactly four
\* positional arguments, request, error and parameter mapping present, and
\* either form takes None for the response.
C1_AsStated ==
    \A p \in ErrorHandlers :
        Called(p) =>
            /\ Accepted =>
                 /\ Len(args) = 4
                 /\ args[1] = "Req" /\ args[3] = "Err" /\ args[4] = "Dict"
                 /\ args[2] \in {"Resp", "None"}
            /\ (args = <<"Req", "None", "Err", "Dict">> /\ kw = {}) => Accepted

\* C1, amended: an error handler of either form is called with exactly four
\* positional arguments (request, response, error, parameter mapping), the
\* request, the error and the mapping always present; the response may be
\* None in the asynchronous form (AsgiErrorHandler) only, the synchronous
\* form (ErrorHandler) requires a response.
C1_ErrorHandlerArguments ==
    \A p \in ErrorHandlers :
        Called(p) =>
            /\ Accepted =>
                 /\ Len(args) = 4
                 /\ args[1] = "Req" /\ args[3] = "Err" /\ args[4] = "Dict"
                 /\ args[2] \in {"Resp", "None"}
                 /\ args[2] = "None" => p = "AsgiErrorHandler"
            /\ (args = <<"Req", "Resp", "Err", "Dict">> /\ kw = {}) => Accepted
            /\ (/\ p = "AsgiErrorHandler"
                /\ args = <<"Req", "None", "Err", "Dict">>
                /\ kw = {}) => Accepted

C1_Witness ==
    /\ Called("AsgiErrorHandler")
    /\ Accepted
    /\ args = <<"Req", "None", "Err", "Dict">>

ContentTypeGiven(k) ==
    k \in {{}, {<<"content_type", "None">>}, {<<"content_type", "Str">>}}

\* A call passing the payload x and an optional content type: omitted, None
\* or a string, by position or by keyword.
WithOptionalContentType(x) ==
    \/ args = <<x>> /\ ContentTypeGiven(kw)
    \/ Len(args) = 2 /\ args[1] = x /\ args[2] \in {"None", "Str"} /\ kw = {}

\* C2 as stated: serialization takes any value plus an optional content type
\* and returns bytes, and deserialization takes bytes plus an optional
\* content type and returns a value.
C2_AsStated ==
    /\ Called("SerializeSync") =>
         /\ Accepted => result = Value("Bytes", FALSE)
         /\ (\E x \in Universe : WithOptionalContentType(x)) => Accepted
    /\ Called("DeserializeSync") =>
         /\ Accepted => result.kind = "value" /\ args[1] = "Bytes"
         /\ WithOptionalContentType("Bytes") => Accepted

\* C2, amended: serialization (SerializeSync) takes an arbitrary value plus
\* an optional content type (omitted or None allowed) and returns bytes;
\* deserialization (DeserializeSync) takes bytes alone, with no content type
\* parameter, and returns an arbitrary value.
C2_MediaContract ==
    /\ Called("SerializeSync") =>
         /\ Accepted => result = Value("Bytes", FALSE)
         /\ (\E x \in Universe : WithOptionalContentType(x)) => Accepted
    /\ Called("DeserializeSync") =>
         /\ Accepted <=> (args = <<"Bytes">> /\ kw = {})
         /\ Accepted => result.kind = "value" /\ ~result.awaited

C2_Witness ==
    /\ Called("DeserializeSync")
    /\ args = <<"Bytes", "Str">>
    /\ outcome = "rejected"

FindMethodCall ==
    /\ Len(args) = 2
    /\ args[1] = "Str"
    /\ args[2] \in {"Req", "None"}
    /\ kw = {}

\* C3 as stated: a routing lookup returns None or a complete 4-tuple in
\* which only the remainder path may be None.
C3_AsStated ==
    Called("FindMethod") =>
        /\ FindMethodCall => Accepted
        /\ Accepted =>
             \/ result = Value("None", FALSE)
             \/ /\ result.kind = "tuple"
                /\ Len(result.items) = 4
                /\ \A i \in 1..3 : result.items[i] # "None"

\* C3, amended: for every URI string and every request argument (present or
\* None) a routing lookup returns None or a 4-tuple (resource, method table,
\* parameter dict, remainder path) whose method table and parameter dict
\* are never None; the remainder path may be None, and so may the resource,
\* which is typed as a plain object.  No tuple of another length is returned.
C3_RoutingLookup ==
    Called("FindMethod") =>
        /\ FindMethodCall => Accepted
        /\ Accepted =>
             \/ result = Value("None", FALSE)
             \/ /\ result.kind = "tuple"
                /\ Len(result.items) = 4
                /\ result.items[2] = "Table"
                /\ result.items[3] = "Dict"
                /\ result.items[4] \in {"Str", "None"}

C3_Witness ==
    /\ Called("FindMethod")
    /\ Accepted
    /\ args = <<"Str", "None">>
    /\ result.kind = "tuple"
    /\ result.items[1] = "None"
    /\ result.items[4] = "None"

\* C4: a Responder of either form is called with exactly three positional
\* arguments, resource, request, response in that order, none of them by
\* keyword, followed by keyword arguments of any number and value type, and
\* produces None on completion.
C4_ResponderArguments ==
    \A p \in Responder :
        Called(p) =>
            /\ Accepted <=>
                 (Len(args) = 3 /\ args[2] = "Req" /\ args[3] = "Resp")
            /\ Accepted => ReturnsNone(p)

C4_Witness ==
    /\ Called("AsgiResponderMethod")
    /\ Accepted
    /\ args = <<"Obj", "Req", "Resp">>
    /\ kw = {<<"id", "Int">>}
    /\ result.awaited

\* C5: a sink of either form is called with exactly two positional
\* arguments (request, response) and no resource, every keyword argument
\* passed to it is a string, and it produces None.
C5_SinkArguments ==
    \A p \in Sinks :
        Called(p) =>
            /\ Accepted <=>
                 (args = <<"Req", "Resp">> /\ \A e \in kw : e[2] = "Str")
            /\ Accepted => ReturnsNone(p)

C5_Witness ==
    /\ Called("SinkCallable")
    /\ args = <<"Req", "Resp">>
    /\ kw = {<<"id", "Int">>}
    /\ outcome = "rejected"

ErrorHandlerPositionals ==
    /\ Len(args) = 4
    /\ args[1] = "Req"
    /\ args[3] = "Err"
    /\ args[4] = "Dict"

\* C6: only the asynchronous error handler form takes the keyword-only
\* argument ws, which may be omitted, None or a WebSocket; a call passing ws
\* is never accepted by ErrorHandler and is accepted by AsgiErrorHandler.
C6_WebSocketArgument ==
    /\ Called("ErrorHandler") /\ "ws" \in KwNamesOf(kw) => ~Accepted
    /\ Called("AsgiErrorHandler") =>
         /\ Accepted => Len(args) = 4
         /\ (ErrorHandlerPositionals /\ args[2] \in {"Resp", "None"}) =>
              (Accepted <=>
                  kw \in {{}, {<<"ws", "None">>}, {<<"ws", "WS">>}})

C6_Witness ==
    /\ Called("AsgiErrorHandler")
    /\ Accepted
    /\ kw = {<<"ws", "WS">>}

\* C7: the enum _Unset has exactly one member, the module constant _UNSET
\* is that member, and a value of UnsetOr[T] is the sentinel or a value of
\* T, never both and never neither, for T not holding the sentinel; the
\* sentinel is not None.
C7_UnsetSentinel ==
    /\ Cardinality(Unset) = 1
    /\ UNSET # "None"
    /\ pc = Done => ns["_UNSET"] \in Unset
    /\ (mode = "checked" /\ alias = "UnsetOr") =>
         /\ verdict => (uval[2] = UNSET) # (uval[2] \in TypeVals(uval[1]))
         /\ uval[2] = UNSET => verdict
         /\ uval[2] \in TypeVals(uval[1]) => verdict

C7_Witness ==
    /\ mode = "checked"
    /\ alias = "UnsetOr"
    /\ uval = <<"OptStr", UNSET>>
    /\ verdict
    /\ ns["_UNSET"] = UNSET

\* C8: once the module is loaded no step changes the bound names or their
\* values (calling a contract runs an empty body), and loading binds
\* WSGIEnvironment and StartResponse exactly once each on either side of
\* the Python 3.11 boundary.
C8_LoadOnlyBindsNames ==
    [][/\ pc = Done => (ns' = ns /\ nbind' = nbind /\ pc' = pc)
       /\ pc' = Done =>
            /\ nbind'["WSGIEnvironment"] = 1
            /\ nbind'["StartResponse"] = 1
            /\ \A n \in Names : nbind'[n] <= 1
            /\ \A n \in Names : (nbind'[n] = 0) <=> (ns'[n] = "<unbound>")]_vars

C8_Witness ==
    /\ pc = Done
    /\ ~py311
    /\ ns["WSGIEnvironment"] = "Dict[str, Any]"
    /\ mode = "called"
    /\ Accepted

\* C9: in a ResponseCallbacks pair the flag is True exactly when the
\* zero-argument callback returns an awaitable and False exactly when it
\* returns None; a pair whose flag disagrees with its callback is no
\* ResponseCallbacks value.
C9_CallbackFlag ==
    (mode = "checked" /\ alias = "ResponseCallbacks") =>
        /\ verdict => (pair[2] <=> pair[1].async) /\ pair[1].pos = <<>>
        /\ (pair[2] # pair[1].async) => ~verdict

C9_Witness ==
    /\ mode = "checked"
    /\ alias = "ResponseCallbacks"
    /\ pair[1].async
    /\ pair[2]
    /\ verdict

IsWsResponder(f) == f.pos = <<"Req", "WS">>

\* C10: a method table is homogeneous: its responders are all synchronous
\* or all asynchronous, and a WebSocket responder appears only in an
\* asynchronous table.
C10_MethodDictHomogeneous ==
    (mode = "checked" /\ alias = "MethodDict" /\ verdict) =>
        /\ \/ \A e \in table : ~e[2].async
           \/ \A e \in table : e[2].async
        /\ (\E e \in table : IsWsResponder(e[2])) =>
              \A e \in table : e[2].async

C10_Witness ==
    /\ mode = "checked"
    /\ alias = "MethodDict"
    /\ verdict
    /\ Cardinality(table) = 2
    /\ \E e \in table : IsWsResponder(e[2])
    /\ \E e \in table : ~IsWsResponder(e[2])
====
